---- MODULE Spec2Model ----
(***************************************************************************)
(* read_before_days.py: mark every entry of the user read, walk the read   *)
(* entries in descending publish order collecting the ids published after  *)
(* sep_date, then mark the collected ids unread.                            *)
(*                                                                         *)
(* The program is sequential; pc is the position of the single control     *)
(* thread.  The reader service is the environment: it holds the entries,   *)
(* answers each request with a response (or the transport raises), and     *)
(* applies a mutating request exactly when the call succeeds for the       *)
(* caller (bulk operations are all-or-nothing).                            *)
(***************************************************************************)
EXTENDS Integers, Sequences, FiniteSets

\* ---- bounds of the model ------------------------------------------------
MaxEntries == 3     \* entries held by the service: ids 0 .. MaxEntries-1
Limit == 2          \* page size ('limit': 100 in the source, scaled down)
MaxRuns == 2        \* successive runs of the program

\* Python's recursion limit, scaled: deep enough for every walk that makes
\* progress (one frame per page, plus the final empty page), so that only a
\* walk that stops advancing exhausts it.
RecursionLimit == MaxEntries + 3

Ids == 0 .. (MaxEntries - 1)

\* ---- values --------------------------------------------------------------
\* Optional values: <<>> is None, <<v>> is the value v.
None == <<>>
Some(v) == <<v>>

Range(s) == {s[k] : k \in 1 .. Len(s)}

\* published_at strings as the service sends them: local seconds, an
\* optional fractional part ('.' present or not) and a UTC offset.
WireTimes ==
    { [sec |-> 3, dot |-> FALSE, frac |-> 0, off |-> 1],
      [sec |-> 3, dot |-> TRUE,  frac |-> 0, off |-> 0],
      [sec |-> 2, dot |-> TRUE,  frac |-> 1, off |-> 0],
      [sec |-> 2, dot |-> FALSE, frac |-> 0, off |-> 1] }

\* The clock at line 95 and the values of sys.argv[1].
Now == [s |-> 4, us |-> 0]
Days == {1, 2}

\* HTTP statuses the service answers with.
StatusCodes == {200, 299, 300, 404, 500}

\* What http_request gives back: the transport raised, or a response with a
\* status and a body that is (or is not) the JSON document the caller needs.
Responses ==
    [raised : {TRUE}, status : {0}, json : {FALSE}]
        \cup [raised : {FALSE}, status : StatusCodes, json : BOOLEAN]

NoResponse == [raised |-> FALSE, status |-> 0, json |-> FALSE]

\* ---- pure functions of the program ---------------------------------------
parse_time_NoOffset(s) ==
    IF s.dot
        THEN [s |-> s.sec, us |-> s.frac]
        ELSE [s |-> s.sec, us |-> 0]

\* parse_time: strptime with %f only when the string has a '.'; the result is
\* an aware datetime, i.e. the instant (local time minus UTC offset).
parse_time(s) ==
    IF s.dot
        THEN [s |-> s.sec - s.off, us |-> s.frac]
        ELSE [s |-> s.sec - s.off, us |-> 0]

After_OrEqual(a, b) == a.s > b.s \/ (a.s = b.s /\ a.us >= b.us)

\* datetime.__gt__ on aware datetimes: compares instants.
After(a, b) == a.s > b.s \/ (a.s = b.s /\ a.us > b.us)

\* sep_date = now - timedelta(days)
SepDate(days) == [s |-> Now.s - days, us |-> Now.us]

\* Python truth value of an Optional[int]: None and 0 are false.
TruthyId(x) == x # None /\ x[1] # 0

\* Python truth value of an Optional[dict]: an entry dict is never empty.
TruthyEntry(x) == x # None

RequestOk_Above399(r, json_response) ==
    /\ ~r.raised
    /\ ~(r.status > 399)
    /\ (json_response => r.json)

\* MinifluxClient.request: TRUE iff the call returns normally.
RequestOk(r, json_response) ==
    /\ ~r.raised
    /\ ~(r.status > 299)
    /\ (json_response => r.json)

Outcome_Swallowed(ok, next) == next

\* An exception raised by request is caught nowhere: the process exits.
Outcome(ok, next) == IF ok THEN next ELSE "aborted"

\* get_entries_by_status: the after_entry_id query parameter actually sent.
CursorParam(after) == IF TruthyId(after) THEN after ELSE None

VARIABLES
    order,           \* service: ids of all entries in listing order
    published,       \* service: id -> published_at string
    status,          \* service: id -> "read" | "unread"
    sep_date,        \* main: the cutoff
    pc,              \* position of the control thread
    entry_ids,       \* main: collected ids
    after_entry_id,  \* append_entries_after_date: parameter of this frame
    data,            \* append_entries_after_date: entries of the fetched page
    idx,             \* append_entries_after_date: loop position in data
    after_date_entry,\* append_entries_after_date: Optional entry
    depth,           \* number of append_entries_after_date frames
    res,             \* MinifluxClient.request: the last response
    log,             \* history: remote calls and sleeps of this run, in order
    scanned,         \* history: entries examined by the loop, in order
    arrived,         \* service: ids of the entries that arrived during this run
    run,             \* number of the current run of the program
    first            \* history: what the first run left behind

vars == <<order, published, status, sep_date, pc, entry_ids, after_entry_id,
          data, idx, after_date_entry, depth, res, log, scanned, arrived,
          run, first>>

extra == <<arrived, run, first>>
service == <<order, published, status>>
frame == <<after_entry_id, data, idx, after_date_entry, depth>>

\* ---- the reader service ---------------------------------------------------
Orders ==
    {s \in UNION {[1 .. n -> Ids] : n \in 0 .. MaxEntries} :
        \A a, b \in 1 .. Len(s) : a # b => s[a] # s[b]}

IsRead(e) == status[e] = "read"

ReadListing_AnyStatus == order

\* GET entries?status=read&order=published_at&direction=desc
ReadListing == SelectSeq(order, IsRead)

IndexOf(s, v) ==
    IF v \in Range(s) THEN CHOOSE k \in 1 .. Len(s) : s[k] = v ELSE Len(s)

\* after_entry_id=c: the entries listed after entry c.
AfterCursor(s, c) ==
    IF c = None THEN s ELSE SubSeq(s, IndexOf(s, c[1]) + 1, Len(s))

Min(a, b) == IF a < b THEN a ELSE b

\* limit=Limit
Page(c) ==
    LET rest == AfterCursor(ReadListing, c)
    IN  SubSeq(rest, 1, Min(Limit, Len(rest)))

\* A history event: the operation, its id argument (the cursor sent, or the id
\* list), its status argument, and whether it returned normally.
Ev(op, arg, st, ok) == [op |-> op, arg |-> arg, st |-> st, ok |-> ok]

\* Nothing recorded yet about the first run.
NoRun == [order |-> <<>>, status |-> <<>>]

\* ---- initial state --------------------------------------------------------
Init ==
    /\ order \in Orders
    /\ published \in [Range(order) -> WireTimes]
    /\ status \in [Range(order) -> {"read", "unread"}]
    /\ \E d \in Days : sep_date = SepDate(d)
    /\ pc = "get_current_user"
    /\ entry_ids = <<>>
    /\ after_entry_id = None
    /\ data = <<>>
    /\ idx = 1
    /\ after_date_entry = None
    /\ depth = 0
    /\ res = NoResponse
    /\ log = <<>>
    /\ scanned = <<>>
    /\ arrived = {}
    /\ run = 1
    /\ first = NoRun

\* ---- main -------------------------------------------------------------------
\* line 102: user = client.get_current_user()
GetCurrentUser ==
    /\ pc = "get_current_user"
    /\ \E r \in Responses :
        /\ res' = r
        /\ log' = Append(log, Ev("get_current_user", <<>>, "", RequestOk(r, TRUE)))
        /\ pc' = Outcome(RequestOk(r, TRUE), "mark_all_read")
    /\ UNCHANGED <<extra, service, sep_date, entry_ids, frame, scanned>>

MarkUserEntriesAsRead_Toggle ==
    /\ pc = "mark_all_read"
    /\ \E r \in Responses :
        /\ res' = r
        /\ log' = Append(log, Ev("mark_all_read", <<>>, "", RequestOk(r, FALSE)))
        /\ IF RequestOk(r, FALSE)
              THEN status' = [e \in DOMAIN status |->
                                 IF status[e] = "read" THEN "unread" ELSE "read"]
              ELSE status' = status
        /\ pc' = Outcome(RequestOk(r, FALSE), "sleep_main")
    /\ UNCHANGED <<extra, order, published, sep_date, entry_ids, frame, scanned>>

\* line 104: client.mark_user_entries_as_read(user['id'])
MarkUserEntriesAsRead ==
    /\ pc = "mark_all_read"
    /\ \E r \in Responses :
        /\ res' = r
        /\ log' = Append(log, Ev("mark_all_read", <<>>, "", RequestOk(r, FALSE)))
        /\ IF RequestOk(r, FALSE)
              THEN status' = [e \in DOMAIN status |-> "read"]
              ELSE status' = status
        /\ pc' = Outcome(RequestOk(r, FALSE), "sleep_main")
    /\ UNCHANGED <<extra, order, published, sep_date, entry_ids, frame, scanned>>

\* lines 106-109: time.sleep(1); entry_ids = []; enter the first frame
SleepMain ==
    /\ pc = "sleep_main"
    /\ log' = Append(log, Ev("sleep", <<>>, "", TRUE))
    /\ entry_ids' = <<>>
    /\ after_entry_id' = None
    /\ depth' = 1
    /\ pc' = "fetch"
    /\ UNCHANGED <<extra, service, sep_date, data, idx, after_date_entry, res, scanned>>

\* ---- append_entries_after_date ---------------------------------------------
\* line 117: data = client.get_entries_by_status('read', after_entry_id)
FetchPage ==
    /\ pc = "fetch"
    /\ \E r \in Responses :
        /\ res' = r
        /\ log' = Append(log, Ev("list", CursorParam(after_entry_id), "read", RequestOk(r, TRUE)))
        /\ IF RequestOk(r, TRUE)
              THEN /\ data' = Page(CursorParam(after_entry_id))
                   /\ idx' = 1
                   /\ after_date_entry' = None
              ELSE UNCHANGED <<data, idx, after_date_entry>>
        /\ pc' = Outcome(RequestOk(r, TRUE), "scan")
    /\ UNCHANGED <<extra, service, sep_date, entry_ids, after_entry_id, depth, scanned>>

ScanEntry_Overwrite ==
    /\ pc = "scan"
    /\ idx <= Len(data)
    /\ LET entry == data[idx]
           published_at == parse_time(published[entry])
       IN  /\ scanned' = Append(scanned, entry)
           /\ IF After(published_at, sep_date)
                 THEN /\ entry_ids' = <<entry>>
                      /\ after_date_entry' = Some(entry)
                      /\ idx' = idx + 1
                      /\ pc' = "scan"
                 ELSE /\ entry_ids' = entry_ids
                      /\ after_date_entry' = None
                      /\ idx' = idx
                      /\ pc' = "end_page"
    /\ UNCHANGED <<extra, service, sep_date, after_entry_id, data, depth, res, log>>

ScanEntry_NoBreak ==
    /\ pc = "scan"
    /\ idx <= Len(data)
    /\ LET entry == data[idx]
           published_at == parse_time(published[entry])
       IN  /\ scanned' = Append(scanned, entry)
           /\ IF After(published_at, sep_date)
                 THEN /\ entry_ids' = Append(entry_ids, entry)
                      /\ after_date_entry' = Some(entry)
                 ELSE /\ entry_ids' = entry_ids
                      /\ after_date_entry' = None
           /\ idx' = idx + 1
           /\ pc' = "scan"
    /\ UNCHANGED <<extra, service, sep_date, after_entry_id, data, depth, res, log>>

\* lines 120-129: one iteration of the loop over data["entries"]
ScanEntry ==
    /\ pc = "scan"
    /\ idx <= Len(data)
    /\ LET entry == data[idx]
           published_at == parse_time(published[entry])
       IN  /\ scanned' = Append(scanned, entry)
           /\ IF After(published_at, sep_date)
                 THEN /\ entry_ids' = Append(entry_ids, entry)
                      /\ after_date_entry' = Some(entry)
                      /\ idx' = idx + 1
                      /\ pc' = "scan"
                 ELSE /\ entry_ids' = entry_ids
                      /\ after_date_entry' = None
                      /\ idx' = idx
                      /\ pc' = "end_page"
    /\ UNCHANGED <<extra, service, sep_date, after_entry_id, data, depth, res, log>>

EndPage_MarksPerPage ==
    /\ \/ pc = "end_page"
       \/ pc = "scan" /\ idx > Len(data)
    /\ pc' = IF TruthyEntry(after_date_entry) THEN "sleep_page" ELSE "update"
    /\ status' = [e \in DOMAIN status |->
                     IF e \in Range(entry_ids) THEN "unread" ELSE status[e]]
    /\ log' = Append(log, Ev("update", entry_ids, "unread", TRUE))
    /\ UNCHANGED <<extra, order, published, sep_date, entry_ids, frame, res, scanned>>

EndPage_NoRecursion ==
    /\ \/ pc = "end_page"
       \/ pc = "scan" /\ idx > Len(data)
    /\ pc' = "update"
    /\ UNCHANGED <<extra, service, sep_date, entry_ids, frame, res, log, scanned>>

\* line 131: the loop is over (exhausted or broken); recurse or return.
\* Returning unwinds every frame: nothing follows the recursive call.
EndPage ==
    /\ \/ pc = "end_page"
       \/ pc = "scan" /\ idx > Len(data)
    /\ pc' = IF TruthyEntry(after_date_entry) THEN "sleep_page" ELSE "update"
    /\ UNCHANGED <<extra, service, sep_date, entry_ids, frame, res, log, scanned>>

SleepPage_NoPause ==
    /\ pc = "sleep_page"
    /\ log' = log
    /\ IF depth < RecursionLimit
          THEN /\ after_entry_id' = Some(after_date_entry[1])
               /\ depth' = depth + 1
               /\ pc' = "fetch"
          ELSE /\ UNCHANGED <<after_entry_id, depth>>
               /\ pc' = "aborted"
    /\ UNCHANGED <<extra, service, sep_date, entry_ids, data, idx, after_date_entry,
                   res, scanned>>

\* lines 132-133: time.sleep(1), then the recursive call with the id of
\* after_date_entry; RecursionError once the frames are used up.
SleepPage ==
    /\ pc = "sleep_page"
    /\ log' = Append(log, Ev("sleep", <<>>, "", TRUE))
    /\ IF depth < RecursionLimit
          THEN /\ after_entry_id' = Some(after_date_entry[1])
               /\ depth' = depth + 1
               /\ pc' = "fetch"
          ELSE /\ UNCHANGED <<after_entry_id, depth>>
               /\ pc' = "aborted"
    /\ UNCHANGED <<extra, service, sep_date, entry_ids, data, idx, after_date_entry,
                   res, scanned>>

\* ---- main, continued ----------------------------------------------------------
\* PUT entries {entry_ids, status}: the service sets the status of the listed
\* entries and of no other.
Updated(ids, st) ==
    [e \in DOMAIN status |-> IF e \in Range(ids) THEN st ELSE status[e]]

UpdateEntries_SkipEmpty ==
    /\ pc = "update"
    /\ IF entry_ids = <<>>
          THEN /\ pc' = "done"
               /\ UNCHANGED <<status, res, log>>
          ELSE \E r \in Responses :
                /\ res' = r
                /\ log' = Append(log, Ev("update", entry_ids, "unread", RequestOk(r, FALSE)))
                /\ IF RequestOk(r, FALSE)
                      THEN status' = Updated(entry_ids, "unread")
                      ELSE status' = status
                /\ pc' = Outcome(RequestOk(r, FALSE), "done")
    /\ UNCHANGED <<extra, order, published, sep_date, entry_ids, frame, scanned>>

\* line 113: client.update_entries(entry_ids, 'unread')
UpdateEntries ==
    /\ pc = "update"
    /\ \E r \in Responses :
        /\ res' = r
        /\ log' = Append(log, Ev("update", entry_ids, "unread", RequestOk(r, FALSE)))
        /\ IF RequestOk(r, FALSE)
              THEN status' = Updated(entry_ids, "unread")
              ELSE status' = status
        /\ pc' = Outcome(RequestOk(r, FALSE), "done")
    /\ UNCHANGED <<extra, order, published, sep_date, entry_ids, frame, scanned>>

\* ---- the environment ----------------------------------------------------------
\* A feed delivers a new entry while the program walks: the service stores it
\* unread under an unused id.  The program sees the service only through its
\* requests, so an arrival is placed right before one; an entry that arrives
\* before mark-all-read is an entry of the initial state, and a later run
\* starts in a state that is an initial state too, so arrivals are followed
\* in the first run only.
Arrive ==
    /\ pc \in {"fetch", "update"}
    /\ run = 1
    /\ Len(order) < MaxEntries
    /\ LET e == CHOOSE x \in Ids \ Range(order) :
                    \A y \in Ids \ Range(order) : x <= y
       IN  \E w \in WireTimes :
            /\ order' = <<e>> \o order
            /\ published' = [x \in Range(order) \cup {e} |->
                                 IF x = e THEN w ELSE published[x]]
            /\ status' = [x \in Range(order) \cup {e} |->
                              IF x = e THEN "unread" ELSE status[x]]
            /\ arrived' = arrived \cup {e}
    /\ UNCHANGED <<sep_date, pc, entry_ids, frame, res, log, scanned, run, first>>

\* The program is run again with the same cutoff after a run that ended in
\* Done, over the same entries: a new process, the same service.
Restart ==
    /\ pc = "done"
    /\ run < MaxRuns
    /\ arrived = {}
    /\ run' = run + 1
    /\ first' = IF run = 1 THEN [order |-> order, status |-> status] ELSE first
    /\ arrived' = {}
    /\ pc' = "get_current_user"
    /\ entry_ids' = <<>>
    /\ after_entry_id' = None
    /\ data' = <<>>
    /\ idx' = 1
    /\ after_date_entry' = None
    /\ depth' = 0
    /\ res' = NoResponse
    /\ log' = <<>>
    /\ scanned' = <<>>
    /\ UNCHANGED <<service, sep_date>>

Next ==
    \/ GetCurrentUser
    \/ MarkUserEntriesAsRead
    \/ SleepMain
    \/ FetchPage
    \/ ScanEntry
    \/ EndPage
    \/ SleepPage
    \/ UpdateEntries
    \/ Arrive
    \/ Restart

Spec == Init /\ [][Next]_vars

\* ---- vocabulary of the properties -----------------------------------------
\* The publish instant of a published_at string, read off the string itself:
\* seconds since the epoch in UTC, and the fractional part.
UtcSec(w) == w.sec - w.off

PublishedAfterCutoff(e) ==
    LET w == published[e]
    IN  \/ UtcSec(w) > sep_date.s
        \/ UtcSec(w) = sep_date.s /\ w.frac > sep_date.us

PublishedAtCutoff(e) ==
    LET w == published[e]
    IN  UtcSec(w) = sep_date.s /\ w.frac = sep_date.us

Newer(e1, e2) ==
    LET w1 == published[e1]
        w2 == published[e2]
    IN  \/ UtcSec(w1) > UtcSec(w2)
        \/ UtcSec(w1) = UtcSec(w2) /\ w1.frac > w2.frac

\* The service lists the entries in descending publish order.
AtStart(e) == e \notin arrived

\* The entries that existed when the run started, in listing order.
Existing == SelectSeq(order, AtStart)

\* The service lists them in descending publish order.
Descending ==
    \A a, b \in 1 .. Len(Existing) : a < b => ~Newer(Existing[b], Existing[a])

CallOps == {"get_current_user", "mark_all_read", "list", "update"}
JsonOps == {"get_current_user", "list"}

IsCall(ev) == ev.op \in CallOps
IsList(ev) == ev.op = "list"
IsUpdate(ev) == ev.op = "update"

Calls == SelectSeq(log, IsCall)
Lists == SelectSeq(log, IsList)
Updates == SelectSeq(log, IsUpdate)

MarkedAllRead == \E k \in 1 .. Len(log) : log[k].op = "mark_all_read" /\ log[k].ok

\* ---- C1 ----------------------------------------------------------------------
\* C1: over a service that lists in descending publish order, a run that
\* reaches Done leaves unread exactly the entries published strictly after
\* the cutoff, and every other entry read, whatever the statuses were at the
\* start of the run.
C1_UnreadExactlyAfterCutoff ==
    (pc = "done" /\ Descending) =>
        \A e \in Range(Existing) :
            IF PublishedAfterCutoff(e) THEN status[e] = "unread"
                                       ELSE status[e] = "read"

C1_Witness ==
    /\ pc = "done"
    /\ Descending
    /\ Len(order) >= 3
    /\ Len(Lists) >= 2
    /\ \E e \in Range(order) : status[e] = "unread"
    /\ \E e \in Range(order) : PublishedAtCutoff(e) /\ status[e] = "read"

\* ---- C2 ----------------------------------------------------------------------
\* C2: an entry published exactly at the cutoff is never collected, never
\* sent in the bulk update, stays read once everything was marked read, and
\* is the last entry the scan examines.
C2_CutoffExclusive ==
    \A e \in Range(Existing) :
        PublishedAtCutoff(e) =>
            /\ e \notin Range(entry_ids)
            /\ \A k \in 1 .. Len(log) :
                   log[k].op = "update" => e \notin Range(log[k].arg)
            /\ MarkedAllRead => status[e] = "read"
            /\ \A k \in 1 .. Len(scanned) :
                   scanned[k] = e =>
                       /\ k = Len(scanned)
                       /\ pc \in {"end_page", "update", "done", "aborted"}

\* The example of the specification: [after, exactly at, before] in one page.
C2_Witness ==
    /\ pc = "done"
    /\ Len(order) = 3
    /\ PublishedAfterCutoff(order[1])
    /\ PublishedAtCutoff(order[2])
    /\ ~PublishedAfterCutoff(order[3]) /\ ~PublishedAtCutoff(order[3])
    /\ scanned = <<order[1], order[2]>>
    /\ status = [e \in Range(order) |->
                    IF e = order[1] THEN "unread" ELSE "read"]

\* ---- C3 ----------------------------------------------------------------------
Rank(op) ==
    CASE op = "get_current_user" -> 0
      [] op = "mark_all_read"    -> 1
      [] op = "list"             -> 2
      [] op = "update"           -> 3

\* The walk is over: the last page was empty, or the last entry examined is
\* not after the cutoff.
PaginationEnded ==
    \/ data = <<>>
    \/ scanned # <<>> /\ ~PublishedAfterCutoff(scanned[Len(scanned)])

\* C3: the remote calls of a run come in the order mark-all-read, list-entries
\* requests, bulk update: no list-entries request before mark-all-read has
\* succeeded, mark-all-read and the bulk update at most once, the bulk update
\* only after a successful list-entries request whose walk is over, and no
\* remote call after the bulk update.
C3_PhaseOrder ==
    LET c == Calls
    IN  /\ \A j, k \in 1 .. Len(c) : j < k => Rank(c[j].op) <= Rank(c[k].op)
        /\ \A j, k \in 1 .. Len(c) :
               (j < k /\ c[j].op = c[k].op) => c[j].op = "list"
        /\ \A k \in 1 .. Len(c) :
               c[k].op = "list" =>
                   \E j \in 1 .. (k - 1) : c[j].op = "mark_all_read" /\ c[j].ok
        /\ \A k \in 1 .. Len(c) :
               c[k].op = "update" =>
                   /\ k = Len(c)
                   /\ k > 1 /\ c[k - 1].op = "list" /\ c[k - 1].ok
                   /\ PaginationEnded
        /\ pc \in {"fetch", "scan", "end_page", "sleep_page"} =>
               (MarkedAllRead /\ Updates = <<>>)
        /\ pc = "update" => (PaginationEnded /\ Updates = <<>>)
        /\ pc = "done" => (Updates # <<>> /\ Updates[1].ok)

C3_Witness ==
    /\ pc = "done"
    /\ Len(Lists) >= 3
    /\ entry_ids # <<>>

\* ---- C4 ----------------------------------------------------------------------
\* A step that issues a remote call, and the call it issued.
IsCallStep == Len(log') = Len(log) + 1 /\ IsCall(log'[Len(log')])
IssuedOp == log'[Len(log')].op

\* The call failed: the transport raised, the status is not a success, or the
\* body of a call that decodes it is not the JSON document.
FailedResponse(r, op) ==
    \/ r.raised
    \/ r.status >= 300
    \/ op \in JsonOps /\ ~r.json

\* C4: a failed remote call aborts the run, and an aborted run does nothing
\* more: no further call, no retry, no change of any entry, never Done.
C4_FailureAborts ==
    [][ /\ (IsCallStep /\ FailedResponse(res', IssuedOp)) => pc' = "aborted"
        /\ pc = "aborted" => (pc' = "aborted" /\ log' = log /\ status' = status)
      ]_vars

C4_Witness ==
    /\ pc = "aborted"
    /\ log # <<>>
    /\ log[Len(log)].op = "list"
    /\ log[Len(log)].arg # None
    /\ ~log[Len(log)].ok
    /\ res.status = 500

\* ---- C5 ----------------------------------------------------------------------
\* C5 as stated: the outcome of a call that got a response depends on the
\* status alone: failure iff the status is >= 300.
C5_StatusAloneDecides ==
    [][ (IsCallStep /\ ~res'.raised) =>
            (pc' = "aborted" <=> res'.status >= 300) ]_vars

\* C5, amended: a status >= 300 fails the call whatever the status class; a
\* status < 300 succeeds, except that get_current_user and list-entries also
\* fail when the body is not the JSON document.
C5_StatusAndBodyDecide ==
    [][ (IsCallStep /\ ~res'.raised) =>
            (pc' = "aborted" <=>
                (res'.status >= 300 \/ (IssuedOp \in JsonOps /\ ~res'.json))) ]_vars

C5_Witness ==
    /\ pc = "aborted"
    /\ ~res.raised
    /\ res.status = 300
    /\ res.json
    /\ Len(Calls) >= 4

\* ---- C6 ----------------------------------------------------------------------
\* C6: a run that aborts on a failed call after mark-all-read succeeded ends
\* with every entry read; the failed call is the last thing the run did (no
\* compensating call), and mark-all-read was its only successful mutation.
C6_AbortLeavesAllRead ==
    (pc = "aborted" /\ MarkedAllRead /\ ~Calls[Len(Calls)].ok) =>
        /\ \A e \in Range(Existing) : status[e] = "read"
        /\ log[Len(log)] = Calls[Len(Calls)]
        /\ \A k \in 1 .. (Len(Calls) - 1) :
               Calls[k].op \in {"get_current_user", "mark_all_read", "list"}

C6_Witness ==
    /\ pc = "aborted"
    /\ MarkedAllRead
    /\ log[Len(log)].op = "update"
    /\ ~log[Len(log)].ok
    /\ Len(log[Len(log)].arg) >= 2
    /\ \A e \in Range(order) : status[e] = "read"

\* ---- C7 ----------------------------------------------------------------------
RECURSIVE AcceptedPrefix(_)
\* The longest prefix of s whose entries are all published after the cutoff.
AcceptedPrefix(s) ==
    IF s = <<>> \/ ~PublishedAfterCutoff(Head(s))
        THEN <<>>
        ELSE <<Head(s)>> \o AcceptedPrefix(Tail(s))

Rejected == scanned # <<>> /\ ~PublishedAfterCutoff(scanned[Len(scanned)])

\* C7: the collected ids are the longest prefix, in scan order, of entries
\* published after the cutoff; once an entry not after the cutoff has been
\* examined nothing more is examined or collected and no page is requested,
\* whatever the entries listed after it.
C7_PaginationBoundary ==
    /\ [](entry_ids = AcceptedPrefix(scanned))
    /\ [][ (Rejected /\ run' = run) =>
                       /\ scanned' = scanned
                       /\ entry_ids' = entry_ids
                       /\ Lists' = Lists ]_vars

\* Out-of-order page [not after the cutoff, after the cutoff]: the second
\* entry is never examined and stays read.
C7_Witness ==
    /\ pc = "done"
    /\ Len(data) = 2
    /\ scanned = <<data[1]>>
    /\ ~PublishedAfterCutoff(data[1])
    /\ PublishedAfterCutoff(data[2])
    /\ status[data[2]] = "read"

\* ---- C8 ----------------------------------------------------------------------
\* C8: the first list-entries request carries no cursor, and every later one
\* carries the id of the last entry accepted from the previous page.
C8_CursorIsLastAccepted ==
    [][ (IsCallStep /\ IssuedOp = "list") =>
            log'[Len(log')].arg =
                IF Lists = <<>> THEN None
                                ELSE Some(entry_ids[Len(entry_ids)]) ]_vars

\* ---- C9 ----------------------------------------------------------------------
\* C9: a run in which no call failed, once over, has called the bulk update
\* exactly once, with status unread and the list of all ids accepted during
\* the walk (empty or not).
C9_UpdateExactlyOnce ==
    (pc \in {"done", "aborted"} /\ \A k \in 1 .. Len(Calls) : Calls[k].ok) =>
        /\ Len(Updates) = 1
        /\ Updates[1].st = "unread"
        /\ Updates[1].arg = AcceptedPrefix(scanned)

\* ---- C10 ---------------------------------------------------------------------
\* The first list-entries request succeeded and returned no entry.
FirstPageEmpty == Len(Lists) = 1 /\ Lists[1].ok /\ data = <<>>

\* C10: after an empty first page no other list-entries request is made, the
\* only call that follows is the bulk update with an empty id list, which is
\* ready to be issued and ends the run in Done when it succeeds.
C10_EmptyFirstPage ==
    /\ [](FirstPageEmpty =>
            /\ entry_ids = <<>>
            /\ scanned = <<>>
            /\ pc \in {"scan", "update", "done", "aborted"}
            /\ pc = "update" => ENABLED (UpdateEntries /\ pc' = "done")
            /\ pc = "done" =>
                   (Len(Updates) = 1 /\ Updates[1].arg = <<>> /\ Updates[1].ok)
            /\ pc = "aborted" =>
                   (Len(Updates) = 1 /\ Updates[1].arg = <<>> /\ ~Updates[1].ok))
    /\ [][ (FirstPageEmpty /\ run' = run) =>
             /\ Lists' = Lists
             /\ pc' # "aborted" => pc' \in {"update", "done"}
             /\ IsCallStep =>
                    (IssuedOp = "update" /\ log'[Len(log')].arg = <<>>) ]_vars

C10_Witness ==
    /\ pc = "done"
    /\ Len(Lists) = 1
    /\ data = <<>>
    /\ Len(Updates) = 1
    /\ Updates[1].arg = <<>>

\* ---- C11 ---------------------------------------------------------------------
\* C11: the walk advances with every page, so a run issues at most one
\* list-entries request per entry plus one, and it ends in Done or on a failed
\* call, never otherwise.
C11_WalkTerminates ==
    /\ Len(Lists) <= Len(order) + 1
    /\ pc = "aborted" => ~Calls[Len(Calls)].ok

\* ---- C12 ---------------------------------------------------------------------
\* C12 as stated: no two remote calls are issued one right after the other;
\* a pause separates them.
C12_PauseBetweenAllCalls ==
    \A k \in 1 .. (Len(log) - 1) : ~(IsCall(log[k]) /\ IsCall(log[k + 1]))

\* C12, amended: exactly one pause precedes every list-entries request (after
\* mark-all-read or after the previous list-entries request); mark-all-read
\* follows get_current_user, and the bulk update follows the last
\* list-entries request, with no pause.
C12_PauseBeforeEachList ==
    \A k \in 1 .. Len(log) :
        /\ log[k].op = "list" =>
               /\ k >= 3
               /\ log[k - 1].op = "sleep"
               /\ log[k - 2].op \in {"mark_all_read", "list"}
        /\ log[k].op = "sleep" => (k > 1 /\ IsCall(log[k - 1]))
        /\ log[k].op = "mark_all_read" =>
               (k = 2 /\ log[1].op = "get_current_user")
        /\ log[k].op = "update" => (k > 1 /\ log[k - 1].op = "list")

C12_Witness ==
    /\ pc = "done"
    /\ Len(Lists) >= 2
    /\ Len(log) >= 8

\* ---- C13 ---------------------------------------------------------------------
\* The loop over the page is over.
PageDone == pc = "end_page" \/ (pc = "scan" /\ idx > Len(data))

\* The page was not empty and every entry of it was accepted.
AllAccepted == data # <<>> /\ idx > Len(data)

IsPrefix(s, t) == Len(s) <= Len(t) /\ SubSeq(t, 1, Len(s)) = s

\* C14: within a run the collected list only grows at its end: every step
\* leaves the current list as a prefix of the next one.
C14_AppendOnly ==
    [][ run' = run => IsPrefix(entry_ids, entry_ids') ]_vars

C14_Witness ==
    /\ Len(entry_ids) >= 3
    /\ Len(Lists) >= 2

\* ---- C15 ---------------------------------------------------------------------
\* C15: no id is collected twice.
C15_NoDuplicateIds ==
    \A j, k \in 1 .. Len(entry_ids) : j # k => entry_ids[j] # entry_ids[k]

\* ---- C16 ---------------------------------------------------------------------
\* C16: once mark-all-read has succeeded, the only step of the run that changes
\* the status of an entry is the bulk update, which sets entries of the
\* collected list to unread; list-entries requests change nothing at the
\* service; an entry that arrived during the run is never examined, never
\* collected and keeps its status.
C16_OnlyCollectedChange ==
    /\ [](\A e \in arrived :
            /\ status[e] = "unread"
            /\ e \notin Range(entry_ids)
            /\ e \notin Range(scanned))
    /\ [][ (MarkedAllRead /\ run' = run) =>
             /\ \A e \in DOMAIN status :
                    status'[e] # status[e] =>
                        /\ IsCallStep
                        /\ IssuedOp = "update"
                        /\ log'[Len(log')].st = "unread"
                        /\ e \in Range(entry_ids)
                        /\ status'[e] = "unread"
             /\ (IsCallStep /\ IssuedOp = "list") => service' = service
             /\ log' # log => (order' = order /\ published' = published)
         ]_vars

C16_Witness ==
    /\ pc = "done"
    /\ entry_ids # <<>>
    /\ \E e \in arrived : PublishedAfterCutoff(e) /\ status[e] = "unread"
    /\ \E e \in Range(Existing) : status[e] = "read"

\* ---- C17 ---------------------------------------------------------------------
\* C17: a later successful run with the same cutoff over the same entries
\* leaves every entry with the status the first successful run left it with.
C17_Idempotent ==
    (run >= 2 /\ pc = "done" /\ order = first.order) => status = first.status

C17_Witness ==
    /\ run = 2
    /\ pc = "done"
    /\ order = first.order
    /\ Len(order) >= 3
    /\ Len(Lists) >= 2
    /\ \E e \in Range(order) : status[e] = "unread"
    /\ \E e \in Range(order) : status[e] = "read"
====
